---- MODULE Spec2Model ----
(***************************************************************************)
(* The gated support workflow of the Agentic E-Commerce Orchestrator:      *)
(* the AgentState record, the router, the six graph nodes and the graph    *)
(* built by build_agent_graph, driven one node at a time.                  *)
(*                                                                         *)
(* Conventions                                                             *)
(*  - Python None of a string-valued slot is the string "None"; an         *)
(*    Optional slot holding a number or an object is <<>> (None) or <<v>>. *)
(*  - Scores are integers in thousandths (1.0 is 1000).                    *)
(*  - Distances are whole miles.                                           *)
(***************************************************************************)
EXTENDS Integers, Sequences, FiniteSets, TLC

VARIABLES env, state, pc, routeKey, error, executed, invocation, reviewOwed, runs

vars == <<env, state, pc, routeKey, error, executed, invocation, reviewOwed, runs>>

None == "None"

(* ---------------------------------------------------------------- bounds *)
MaxRefundCount == 7
MaxDriftSteps == 4
MaxResumes == 1

\* how often a node is applied in a row to one state
MaxApplications == 2

(* ------------------------------------------------------ program constants *)
\* risk_scoring.py:15, TRUST_SCORE_THRESHOLD = 0.5, in thousandths
TRUST_SCORE_THRESHOLD == 500
\* red_flag_checker.py:28, os.getenv("MAX_REFUNDS_PER_MONTH", 3)
DEFAULT_MAX_REFUNDS == 3
\* red_flag_checker.py:29, os.getenv("ADDRESS_DRIFT_THRESHOLD_MILES", 300)
DEFAULT_MAX_DRIFT_MILES == 300

(* ----------------------------------------------------------- enumerations *)
\* agent/state.py, class AgentStatus
AgentStatus ==
    { "IDENTITY_REQUIRED", "IDENTITY_VERIFIED", "IDENTITY_FAILED",
      "DATA_RETRIEVED", "FLAGS_CHECKED", "RISK_SCORED",
      "HUMAN_REVIEW_REQUIRED", "HUMAN_APPROVED", "HUMAN_REJECTED",
      "DRAFT_READY", "DONE" }

\* agent/state.py, class HumanDecisionType
HumanDecisionType == { "approve", "reject", "edit", "needs_more_info" }

\* verify_identity.py, INTENT_KEYWORDS, in dictionary (insertion) order
INTENT_KEYWORDS ==
    << <<"refund", "refund">>,
       <<"return", "return">>,
       <<"shipping", "shipping_issue">>,
       <<"billing", "billing_dispute">>,
       <<"account takeover", "account_takeover">> >>

(* ---------------------------------------------------------------- helpers *)
\* Python truthiness of an Optional[str]: None and "" are falsy
Truthy(str) == str # None /\ str # ""

\* os.getenv(name, default) followed by int(): the variable when set, else the default
IntEnv(opt, default) == IF opt = <<>> THEN default ELSE opt[1]

\* dict.get(key, default) on session_metadata
Get(opt, default) == IF opt = <<>> THEN default ELSE opt[1]

\* str.lower() on the words the inputs of this model are made of
Lower(w) ==
    CASE w = "Refund" -> "refund"
      [] w = "Return" -> "return"
      [] w = "Show"   -> "show"
      [] OTHER        -> w

\* user_input.lower(), word by word
LowerText(text) == [i \in DOMAIN text |-> Lower(text[i])]

\* keyword in user_input_lower
Contains(text, keyword) == \E i \in DOMAIN text : text[i] = keyword

\* verify_identity.py:57-62: the first keyword of INTENT_KEYWORDS found, else OTHER
ClassifyIntent(user_input) ==
    LET user_input_lower == LowerText(user_input)
        hits == { k \in DOMAIN INTENT_KEYWORDS :
                    Contains(user_input_lower, INTENT_KEYWORDS[k][1]) }
    IN IF hits = {} THEN "other"
       ELSE INTENT_KEYWORDS[CHOOSE k \in hits : \A j \in hits : k <= j][2]

(* ------------------------------------------------------------- the router *)
\* a router that lost its human-in-the-loop rule (rule 2)
route_next_step_no_hitl(s) ==
    IF ~s.is_verified THEN "blocked"
    ELSE IF s.status = "HUMAN_APPROVED" THEN "approved"
    ELSE IF s.status = "HUMAN_REJECTED" THEN "rejected"
    ELSE "continue"

\* a router that lost its identity rule (rule 1)
route_next_step_no_identity(s) ==
    IF s.requires_human_review THEN "human_review"
    ELSE IF s.status = "HUMAN_APPROVED" THEN "approved"
    ELSE IF s.status = "HUMAN_REJECTED" THEN "rejected"
    ELSE "continue"

\* a router whose identity rule reads the status instead of is_verified
route_next_step_by_status(s) ==
    IF s.status = "IDENTITY_FAILED" THEN "blocked"
    ELSE IF s.requires_human_review THEN "human_review"
    ELSE IF s.status = "HUMAN_APPROVED" THEN "approved"
    ELSE IF s.status = "HUMAN_REJECTED" THEN "rejected"
    ELSE "continue"

\* agent/router.py, route_next_step
route_next_step(s) ==
    IF ~s.is_verified THEN "blocked"
    ELSE IF s.requires_human_review THEN "human_review"
    ELSE IF s.status = "HUMAN_APPROVED" THEN "approved"
    ELSE IF s.status = "HUMAN_REJECTED" THEN "rejected"
    ELSE "continue"

(* -------------------------------------------------------------- the nodes *)
\* an identity gate without the fail-closed test of lines 37-41
verify_identity_node_fail_open(s) ==
    IF s.session_metadata.user_id = env.USER_ID /\ s.session_metadata.email = env.USER_EMAIL
    THEN [s EXCEPT !.is_verified = TRUE,
                   !.status = "IDENTITY_VERIFIED",
                   !.intent = ClassifyIntent(s.user_input),
                   !.contains_pii = Truthy(s.session_metadata.user_id)
                                      \/ Truthy(s.session_metadata.email)]
    ELSE [s EXCEPT !.is_verified = FALSE, !.status = "IDENTITY_FAILED"]

\* an identity gate that compares the user_id alone
verify_identity_node_id_only(s) ==
    IF ~Truthy(env.USER_ID) \/ ~Truthy(env.USER_EMAIL)
    THEN [s EXCEPT !.is_verified = FALSE, !.status = "IDENTITY_FAILED"]
    ELSE IF s.session_metadata.user_id = env.USER_ID
         THEN [s EXCEPT !.is_verified = TRUE,
                        !.status = "IDENTITY_VERIFIED",
                        !.intent = ClassifyIntent(s.user_input),
                        !.contains_pii = Truthy(s.session_metadata.user_id)
                                           \/ Truthy(s.session_metadata.email)]
         ELSE [s EXCEPT !.is_verified = FALSE, !.status = "IDENTITY_FAILED"]

\* an identity gate that resets intent and contains_pii when it fails
verify_identity_node_reset_on_fail(s) ==
    IF /\ Truthy(env.USER_ID) /\ Truthy(env.USER_EMAIL)
       /\ s.session_metadata.user_id = env.USER_ID
       /\ s.session_metadata.email = env.USER_EMAIL
    THEN [s EXCEPT !.is_verified = TRUE,
                   !.status = "IDENTITY_VERIFIED",
                   !.intent = ClassifyIntent(s.user_input),
                   !.contains_pii = Truthy(s.session_metadata.user_id)
                                      \/ Truthy(s.session_metadata.email)]
    ELSE [s EXCEPT !.is_verified = FALSE, !.status = "IDENTITY_FAILED",
                   !.intent = "other", !.contains_pii = FALSE]

\* nodes/verify_identity.py, verify_identity_node
verify_identity_node(s) ==
    LET trusted_user_id    == env.USER_ID
        trusted_user_email == env.USER_EMAIL
        session_user_id    == s.session_metadata.user_id
        session_email      == s.session_metadata.email
    IN IF ~Truthy(trusted_user_id) \/ ~Truthy(trusted_user_email)
       THEN [s EXCEPT !.is_verified = FALSE, !.status = "IDENTITY_FAILED"]
       ELSE IF session_user_id = trusted_user_id /\ session_email = trusted_user_email
            THEN [s EXCEPT !.is_verified = TRUE,
                           !.status = "IDENTITY_VERIFIED",
                           !.intent = ClassifyIntent(s.user_input),
                           !.contains_pii = Truthy(session_user_id) \/ Truthy(session_email)]
            ELSE [s EXCEPT !.is_verified = FALSE, !.status = "IDENTITY_FAILED"]

\* nodes/retrieve_data.py:103: user_id = state.user_id or os.getenv("USER_ID")
RetrievalUserId(s) == IF Truthy(s.user_id) THEN s.user_id ELSE env.USER_ID

\* nodes/retrieve_data.py, retrieve_data_node, when no call of it raises
retrieve_data_node(s) ==
    [s EXCEPT !.retrieved = << [order_id |-> "ORD12345", user_id |-> RetrievalUserId(s)] >>,
              !.status = "DATA_RETRIEVED"]

\* a detector that appends its indicators and leaves requires_human_review alone
red_flag_checker_node_no_review(s) ==
    LET velocity == s.refund_count > IntEnv(env.MAX_REFUNDS_PER_MONTH, DEFAULT_MAX_REFUNDS)
        drift    == s.address_drift_miles
                      > IntEnv(env.ADDRESS_DRIFT_THRESHOLD_MILES, DEFAULT_MAX_DRIFT_MILES)
        flags1 == IF velocity THEN Append(s.red_flags, "REFUND_VELOCITY_EXCEEDED")
                  ELSE s.red_flags
        flags2 == IF drift THEN Append(flags1, "ADDRESS_DISTANCE_DISCREPANCY")
                  ELSE flags1
    IN [s EXCEPT !.red_flags = flags2,
                 !.status = IF flags2 # <<>> THEN "RED_FLAG_DETECTED" ELSE "NO_RED_FLAGS"]

\* nodes/red_flag_checker.py, red_flag_checker_node
red_flag_checker_node(s) ==
    LET max_refunds     == IntEnv(env.MAX_REFUNDS_PER_MONTH, DEFAULT_MAX_REFUNDS)
        max_drift_miles == IntEnv(env.ADDRESS_DRIFT_THRESHOLD_MILES, DEFAULT_MAX_DRIFT_MILES)
        refund_count        == s.refund_count
        address_drift_miles == s.address_drift_miles
        velocity == refund_count > max_refunds
        drift    == address_drift_miles > max_drift_miles
        flags1 == IF velocity THEN Append(s.red_flags, "REFUND_VELOCITY_EXCEEDED")
                  ELSE s.red_flags
        flags2 == IF drift THEN Append(flags1, "ADDRESS_DISTANCE_DISCREPANCY")
                  ELSE flags1
    IN [s EXCEPT !.red_flags = flags2,
                 !.requires_human_review = (s.requires_human_review \/ velocity \/ drift),
                 !.status = IF flags2 # <<>> THEN "RED_FLAG_DETECTED" ELSE "NO_RED_FLAGS"]

Min(a, b) == IF a <= b THEN a ELSE b
Max(a, b) == IF a >= b THEN a ELSE b

\* a refund penalty of 0.1 a refund
RefundPenalty_steep(refund_count) ==
    IF refund_count > 0 THEN Min(300, 100 * refund_count) ELSE 0

\* risk_scoring.py:36-42: the two penalties, in thousandths
RefundPenalty(refund_count) ==
    IF refund_count > 0 THEN Min(300, 50 * refund_count) ELSE 0
DriftPenalty(address_drift) ==
    IF address_drift > 0 THEN Min(300, address_drift) ELSE 0

\* a trust score that adds the drift penalty instead of subtracting it
TrustScore_drift_bonus(refund_count, address_drift) ==
    Max(0, Min(1000, 1000 - RefundPenalty(refund_count) + DriftPenalty(address_drift)))

\* risk_scoring.py:34-45: the clamped trust score, in thousandths
TrustScore(refund_count, address_drift) ==
    Max(0, Min(1000, 1000 - RefundPenalty(refund_count) - DriftPenalty(address_drift)))

\* risk_scoring.py:62, trust_score < TRUST_SCORE_THRESHOLD on IEEE doubles:
\* (1.0 - 0.3) - 0.2 is 0.49999999999999994, the one sum of two penalties
\* whose double lies on the other side of 0.5 than its exact value
BelowThreshold(refund_count, address_drift) ==
    \/ TrustScore(refund_count, address_drift) < TRUST_SCORE_THRESHOLD
    \/ /\ RefundPenalty(refund_count) = 300
       /\ DriftPenalty(address_drift) = 200

\* risk_scoring.py:70-74: f"{trust_score:.2f}", in hundredths
TwoDecimals(score) == (score + 5) \div 10

\* nodes/risk_scoring.py, risk_scoring_node
risk_scoring_node(s) ==
    LET refund_count  == IF s.fraud # <<>> THEN s.fraud[1].refund_count ELSE 0
        address_drift == IF s.fraud # <<>> THEN s.fraud[1].address_drift_miles ELSE 0
        trust_score   == TrustScore(refund_count, address_drift)
        fraud0 == IF s.fraud # <<>> THEN s.fraud[1]
                  ELSE [refund_count |-> refund_count,
                        address_drift_miles |-> address_drift,
                        red_flags |-> <<>>,
                        trust_score |-> <<>>,
                        requires_human_review |-> FALSE,
                        summary |-> <<>>]
        review == BelowThreshold(refund_count, address_drift) \/ fraud0.red_flags # <<>>
        fraud1 == [fraud0 EXCEPT !.trust_score = <<trust_score>>,
                                 !.summary = <<refund_count, address_drift,
                                               TwoDecimals(trust_score)>>]
    IN [s EXCEPT !.fraud = <<fraud1>>,
                 !.requires_human_review = review,
                 !.status = IF review THEN "HUMAN_REVIEW_REQUIRED" ELSE "RISK_SCORED"]

\* the gate with the edit decision left to fall through to the pause
human_review_node_edit_pauses(s) ==
    LET entered  == [s EXCEPT !.status = "HUMAN_REVIEW_REQUIRED",
                              !.requires_human_review = TRUE]
        decision == s.human_decision
    IN IF decision = "approve"
       THEN [entered EXCEPT !.status = "HUMAN_APPROVED", !.requires_human_review = FALSE]
       ELSE IF decision = "reject"
       THEN [entered EXCEPT !.status = "HUMAN_REJECTED"]
       ELSE entered

\* nodes/human_review.py, human_review_node
human_review_node(s) ==
    LET entered  == [s EXCEPT !.status = "HUMAN_REVIEW_REQUIRED",
                              !.requires_human_review = TRUE]
        decision == s.human_decision
    IN IF decision = "approve"
       THEN [entered EXCEPT !.status = "HUMAN_APPROVED", !.requires_human_review = FALSE]
       ELSE IF decision = "reject"
       THEN [entered EXCEPT !.status = "HUMAN_REJECTED"]
       ELSE IF decision = "edit"
       THEN [entered EXCEPT !.status = "HUMAN_APPROVED", !.requires_human_review = FALSE]
       ELSE IF decision = "needs_more_info"
       THEN [entered EXCEPT !.requires_human_review = TRUE,
                            !.status = "HUMAN_REVIEW_REQUIRED"]
       ELSE entered

\* nodes/draft_response.py:31: state.trust_score is no field of AgentState and no
\* node sets it; the read raises AttributeError unless the caller supplied it
DraftRaises(s) == s.trust_score = <<>>

\* nodes/draft_response.py, draft_response_node, when the read of line 31 succeeds
draft_response_node(s) ==
    LET reasoning_summary ==
            [trust |-> IF s.trust_score[1] # 0 THEN s.trust_score ELSE <<>>,
             reviewed |-> s.red_flags]
    IN [s EXCEPT !.draft_response = << [subject |-> "Regarding Your Recent Request",
                                        body |-> reasoning_summary] >>,
                 !.status = "RESPONSE_DRAFTED"]

(* -------------------------------------------------------------- the graph *)
\* the graph with the red-flag detector's clean edge wired past the risk scorer
ConditionalEdges_skip_risk ==
    [verify_identity |-> [blocked |-> "END", continue |-> "retrieve_data"],
     red_flag_check  |-> [human_review |-> "human_review", continue |-> "draft_response"],
     risk_scoring    |-> [human_review |-> "human_review", continue |-> "draft_response"],
     human_review    |-> [approved |-> "draft_response", rejected |-> "END"]]

\* the graph with the human review gate given a human_review edge back to itself
ConditionalEdges_review_loop ==
    [verify_identity |-> [blocked |-> "END", continue |-> "retrieve_data"],
     red_flag_check  |-> [human_review |-> "human_review", continue |-> "risk_scoring"],
     risk_scoring    |-> [human_review |-> "human_review", continue |-> "draft_response"],
     human_review    |-> [approved |-> "draft_response", rejected |-> "END",
                          human_review |-> "human_review"]]

\* agent.py:60-101: the conditional-edge map of each routed node
ConditionalEdges ==
    [verify_identity |-> [blocked |-> "END", continue |-> "retrieve_data"],
     red_flag_check  |-> [human_review |-> "human_review", continue |-> "risk_scoring"],
     risk_scoring    |-> [human_review |-> "human_review", continue |-> "draft_response"],
     human_review    |-> [approved |-> "draft_response", rejected |-> "END"]]

\* router.py:24-25: the key must match a defined edge; a key the node's map
\* lacks has no destination and the invocation fails
Branch(node, key) ==
    IF key \in DOMAIN ConditionalEdges[node] THEN ConditionalEdges[node][key] ELSE "ERROR"

(* ------------------------------------------------------------- the inputs *)
\* the trusted reference of the environment (USER_ID, USER_EMAIL), set or not
TrustedRefs ==
    { [USER_ID |-> None, USER_EMAIL |-> None],
      [USER_ID |-> "",   USER_EMAIL |-> "a@b.com"],
      [USER_ID |-> "u1", USER_EMAIL |-> None],
      [USER_ID |-> "u1", USER_EMAIL |-> "a@b.com"] }

\* the policy thresholds of the environment: unset, or set to lenient values
Thresholds ==
    { [MAX_REFUNDS_PER_MONTH |-> <<>>,  ADDRESS_DRIFT_THRESHOLD_MILES |-> <<>>],
      [MAX_REFUNDS_PER_MONTH |-> <<6>>, ADDRESS_DRIFT_THRESHOLD_MILES |-> <<1000>>] }

UserInputs ==
    { <<>>, <<"Show", "my", "last", "order">>, <<"Return", "or", "Refund">> }

SessionIdentities ==
    { [user_id |-> "u1", email |-> "a@b.com"],
      [user_id |-> "u2", email |-> "a@b.com"],
      [user_id |-> "u1", email |-> None] }

RefundCounts == { <<>> } \cup { <<n>> : n \in -1 .. MaxRefundCount }

DriftMiles == { <<>> } \cup { <<100 * i>> : i \in -1 .. MaxDriftSteps }

SessionMetadata ==
    { [user_id |-> id.user_id, email |-> id.email,
       refund_count |-> r, address_drift_miles |-> d] :
         id \in SessionIdentities, r \in RefundCounts, d \in DriftMiles }

\* a flat trust_score attribute the caller may have put on the state (extra = "allow")
SuppliedTrustScores == { <<>>, <<1000>> }

(* ------------------------------------------------------ the agent runtime *)
\* agent.py:122-148: the AgentState run_agent constructs
InitialState(user_input, session_metadata) ==
    [user_input |-> user_input,
     session_metadata |-> session_metadata,
     intent |-> "other",
     user_id |-> None,
     order_id |-> None,
     is_verified |-> FALSE,
     contains_pii |-> FALSE,
     status |-> "IDENTITY_REQUIRED",
     refund_count |-> Get(session_metadata.refund_count, 0),
     address_drift_miles |-> Get(session_metadata.address_drift_miles, 0),
     red_flags |-> <<>>,
     requires_human_review |-> FALSE,
     fraud |-> << [refund_count |-> Get(session_metadata.refund_count, 0),
                   address_drift_miles |-> Get(session_metadata.address_drift_miles, 0),
                   red_flags |-> <<>>,
                   trust_score |-> <<>>,
                   requires_human_review |-> FALSE,
                   summary |-> <<>>] >>,
     retrieved |-> <<>>,
     draft |-> <<>>,
     human_decision |-> None,
     trust_score |-> <<>>,
     draft_response |-> <<>>]

\* agent/state.py:78-80 and 138-139: the ge = 0 constraints checked at construction
ValidState(s) == s.refund_count >= 0 /\ s.address_drift_miles >= 0

\* run_agent, or a caller invoking the compiled graph on the same state with a
\* human_decision (human_review.py:29-33) or a trust_score attribute on it
Init ==
    \E ref \in TrustedRefs, thr \in Thresholds, ui \in UserInputs,
       sm \in SessionMetadata, d \in HumanDecisionType \cup {None},
       ts \in SuppliedTrustScores :
        /\ env = [USER_ID |-> ref.USER_ID, USER_EMAIL |-> ref.USER_EMAIL,
                  MAX_REFUNDS_PER_MONTH |-> thr.MAX_REFUNDS_PER_MONTH,
                  ADDRESS_DRIFT_THRESHOLD_MILES |-> thr.ADDRESS_DRIFT_THRESHOLD_MILES]
        /\ state = [InitialState(ui, sm) EXCEPT !.human_decision = d, !.trust_score = ts]
        /\ pc = IF ValidState(state) THEN "verify_identity" ELSE "ERROR"
        /\ error = IF ValidState(state) THEN "none" ELSE "ValidationError"
        /\ routeKey = "none"
        /\ executed = <<>>
        /\ invocation = 0
        /\ reviewOwed = FALSE
        /\ runs = <<>>

\* a routed node: the node's result, then route_next_step through the node's map
RoutedStep(node, s2) ==
    LET key == route_next_step(s2)
    IN /\ state' = s2
       /\ routeKey' = key
       /\ pc' = Branch(node, key)
       /\ error' = IF Branch(node, key) = "ERROR" THEN "KeyError" ELSE "none"
       /\ executed' = Append(executed, node)
       /\ UNCHANGED <<env, invocation, runs>>

\* agent.py:50, 58, 61-68
VerifyIdentity ==
    /\ pc = "verify_identity"
    /\ RoutedStep("verify_identity", verify_identity_node(state))
    /\ reviewOwed' = (reviewOwed \/ state'.requires_human_review)

\* agent.py:51, 71; retrieve_data.py:103-131: the lookups may raise, and the
\* state is written only after they returned
RetrieveData ==
    /\ pc = "retrieve_data"
    /\ \E lookups_ok \in BOOLEAN :
          IF Truthy(RetrievalUserId(state)) /\ lookups_ok
          THEN /\ state' = retrieve_data_node(state)
               /\ pc' = "red_flag_check"
               /\ error' = "none"
          ELSE /\ state' = state
               /\ pc' = "ERROR"
               /\ error' = "RetrievalError"
    /\ executed' = Append(executed, "retrieve_data")
    /\ UNCHANGED <<env, routeKey, invocation, reviewOwed, runs>>

\* agent.py:52, 74-81
RedFlagCheck ==
    /\ pc = "red_flag_check"
    /\ RoutedStep("red_flag_check", red_flag_checker_node(state))
    /\ reviewOwed' = (reviewOwed \/ state'.requires_human_review)

\* agent.py:53, 84-91
RiskScoring ==
    /\ pc = "risk_scoring"
    /\ RoutedStep("risk_scoring", risk_scoring_node(state))
    /\ reviewOwed' = (reviewOwed \/ state'.requires_human_review)

\* agent.py:54, 94-101
HumanReview ==
    /\ pc = "human_review"
    /\ RoutedStep("human_review", human_review_node(state))
    /\ reviewOwed' = IF state.human_decision # None THEN FALSE
                     ELSE (reviewOwed \/ state'.requires_human_review)

\* agent.py:55, 104
DraftResponse ==
    /\ pc = "draft_response"
    /\ IF DraftRaises(state)
       THEN /\ state' = state
            /\ pc' = "ERROR"
            /\ error' = "AttributeError"
       ELSE /\ state' = draft_response_node(state)
            /\ pc' = "END"
            /\ error' = "none"
    /\ executed' = Append(executed, "draft_response")
    /\ UNCHANGED <<env, routeKey, invocation, reviewOwed, runs>>

\* agent.py:58, 151-152: the only way back into the workflow is a new invocation
\* of the graph, which enters at START; the caller resumes a run that stopped at
\* the human review gate by invoking it on that state with a decision filled in.
\* A resumed invocation ends after its identity gate with status
\* IDENTITY_VERIFIED, so a state is resumed at most once whatever MaxResumes is
Resume ==
    /\ pc \in {"END", "ERROR"}
    /\ state.status = "HUMAN_REVIEW_REQUIRED"
    /\ invocation < MaxResumes
    /\ \E d \in HumanDecisionType :
          state' = [state EXCEPT !.human_decision = d]
    /\ pc' = "verify_identity"
    /\ error' = "none"
    /\ routeKey' = "none"
    /\ executed' = <<>>
    /\ invocation' = invocation + 1
    /\ reviewOwed' = state.requires_human_review
    /\ UNCHANGED <<env, runs>>

Next ==
    \/ VerifyIdentity
    \/ RetrieveData
    \/ RedFlagCheck
    \/ RiskScoring
    \/ HumanReview
    \/ DraftResponse
    \/ Resume

Spec == Init /\ [][Next]_vars

(* ------------------------------------------------- the router on any state *)
\* every status a state can carry: the enumeration, None, and the literals the
\* nodes write (red_flag_checker.py:47-49, draft_response.py:52)
AnyStatus ==
    AgentStatus \cup {None, "RED_FLAG_DETECTED", "NO_RED_FLAGS", "RESPONSE_DRAFTED"}

\* any AgentState as far as route_next_step reads it, and the fields beside
InitRouter ==
    \E v \in BOOLEAN, r \in BOOLEAN, st \in AnyStatus,
       flags \in {<<>>, <<"REFUND_VELOCITY_EXCEEDED">>},
       d \in {None, "approve", "reject"} :
        /\ env = [USER_ID |-> "u1", USER_EMAIL |-> "a@b.com",
                  MAX_REFUNDS_PER_MONTH |-> <<>>,
                  ADDRESS_DRIFT_THRESHOLD_MILES |-> <<>>]
        /\ state = [InitialState(<<"Refund">>,
                                 [user_id |-> "u1", email |-> "a@b.com",
                                  refund_count |-> <<>>, address_drift_miles |-> <<>>])
                       EXCEPT !.is_verified = v, !.requires_human_review = r,
                              !.status = st, !.red_flags = flags,
                              !.human_decision = d]
        /\ pc = "ROUTER"
        /\ error = "none"
        /\ routeKey = "none"
        /\ executed = <<>>
        /\ invocation = 0
        /\ reviewOwed = r
        /\ runs = <<>>

\* agent/router.py:20-49 applied to the state
ApplyRouter ==
    /\ pc = "ROUTER"
    /\ routeKey' = route_next_step(state)
    /\ pc' = "ROUTED"
    /\ UNCHANGED <<env, state, error, executed, invocation, reviewOwed, runs>>

SpecRouter == InitRouter /\ [][ApplyRouter]_vars

(* ------------------------------------------------------------ the claims *)
\* the node executed last in the current invocation, "none" before the first
LastNode == IF executed = <<>> THEN "none" ELSE executed[Len(executed)]

Ran(node) == \E i \in DOMAIN executed : executed[i] = node

\* the invocation is over: returned to the caller, or raised
Ended == pc \in {"END", "ERROR"}

NoDraft == state.draft = <<>> /\ state.draft_response = <<>>

\* the session identity equals a configured trusted reference
IdentityMatches ==
    /\ Truthy(env.USER_ID) /\ Truthy(env.USER_EMAIL)
    /\ state.session_metadata.user_id = env.USER_ID
    /\ state.session_metadata.email = env.USER_EMAIL

\* C1: while a review is owed (requires_human_review has been true and the human
\* review gate has not since been evaluated with a decision present) the draft
\* step is neither about to run nor has it run: no draft, no drafted status.
C1_NoDraftWhileReviewOwed ==
    reviewOwed =>
        /\ pc # "draft_response"
        /\ NoDraft
        /\ state.status \notin {"DRAFT_READY", "RESPONSE_DRAFTED"}

\* a flagged run that the gate approved and that then drafted
C1_Witness ==
    /\ state.red_flags # <<>>
    /\ Ran("human_review") /\ state.human_decision = "approve"
    /\ LastNode = "draft_response" /\ state.draft_response # <<>>

\* C2: status IDENTITY_FAILED implies is_verified false, and the identity gate
\* is then the only node that ran: the router answered blocked, the run is at
\* END and the state holds no draft.
C2_IdentityFailedIsTerminal ==
    state.status = "IDENTITY_FAILED" =>
        /\ ~state.is_verified
        /\ executed = <<"verify_identity">>
        /\ routeKey = "blocked" /\ pc = "END"
        /\ NoDraft

C2_Witness ==
    /\ state.status = "IDENTITY_FAILED" /\ pc = "END"
    /\ state.session_metadata.user_id = "u2" /\ env.USER_ID = "u1"

\* C3: on every state with is_verified false the router answers blocked,
\* whatever the status, requires_human_review and red_flags.
C3_UnverifiedIsBlocked ==
    (pc = "ROUTED" /\ ~state.is_verified) => routeKey = "blocked"

C3_Witness ==
    /\ pc = "ROUTED" /\ ~state.is_verified /\ routeKey = "blocked"
    /\ state.requires_human_review /\ state.status = "HUMAN_APPROVED"

\* C4: the router's answer is the first match of: status IDENTITY_FAILED or not
\* verified -> blocked; requires_human_review -> human_review; HUMAN_APPROVED ->
\* approved; HUMAN_REJECTED -> rejected; otherwise continue.
C4_RouterPriorityList ==
    pc = "ROUTED" =>
        routeKey =
            IF state.status = "IDENTITY_FAILED" \/ ~state.is_verified THEN "blocked"
            ELSE IF state.requires_human_review THEN "human_review"
            ELSE IF state.status = "HUMAN_APPROVED" THEN "approved"
            ELSE IF state.status = "HUMAN_REJECTED" THEN "rejected"
            ELSE "continue"

\* C5: after the gate ran with human_decision = reject the router answers
\* rejected, the run is at END without error, status is HUMAN_REJECTED, no draft.
C5_RejectEndsTheRun ==
    (LastNode = "human_review" /\ state.human_decision = "reject") =>
        /\ routeKey = "rejected"
        /\ pc = "END" /\ error = "none"
        /\ state.status = "HUMAN_REJECTED"
        /\ NoDraft

\* C6: after the gate ran with no human_decision the invocation has returned
\* without error, with status HUMAN_REVIEW_REQUIRED, requires_human_review true
\* and no draft.
C6_PauseIsAnOrdinaryReturn ==
    (LastNode = "human_review" /\ state.human_decision = None) =>
        /\ pc = "END" /\ error = "none"
        /\ state.status = "HUMAN_REVIEW_REQUIRED"
        /\ state.requires_human_review
        /\ NoDraft

\* C7: in an invocation that resumes a paused state with human_decision =
\* approve, the identity gate, the red-flag detector and the risk scorer do not
\* run, and the invocation ends with status DRAFT_READY.
C7_ResumeSkipsTheChecks ==
    (invocation > 0 /\ state.human_decision = "approve") =>
        /\ ~Ran("verify_identity") /\ ~Ran("red_flag_check") /\ ~Ran("risk_scoring")
        /\ Ended => state.status = "DRAFT_READY"

\* C8: a run with a matching identity, no red flag and a trust score of at
\* least 0.5, whose lookups succeeded, ends at END with status DRAFT_READY, a
\* draft, no red flags, and without the human review gate having run.
C8_CleanRunDrafts ==
    ( /\ invocation = 0 /\ Ended
      /\ error \notin {"ValidationError", "RetrievalError"}
      /\ IdentityMatches
      /\ state.refund_count <= IntEnv(env.MAX_REFUNDS_PER_MONTH, DEFAULT_MAX_REFUNDS)
      /\ state.address_drift_miles
            <= IntEnv(env.ADDRESS_DRIFT_THRESHOLD_MILES, DEFAULT_MAX_DRIFT_MILES)
      /\ ~BelowThreshold(state.refund_count, state.address_drift_miles) ) =>
        /\ pc = "END"
        /\ state.status = "DRAFT_READY"
        /\ state.draft # <<>>
        /\ state.red_flags = <<>>
        /\ ~Ran("human_review")

\* C9 as stated: a run whose identity check fails returns status
\* IDENTITY_FAILED with no fraud composite and no draft.
C9_NoFraudSignalsOnMismatch ==
    (invocation = 0 /\ pc = "END" /\ ~IdentityMatches) =>
        /\ state.status = "IDENTITY_FAILED"
        /\ state.fraud = <<>>
        /\ NoDraft

\* C9 as amended: a run whose identity check fails returns status
\* IDENTITY_FAILED with no draft, and its fraud composite is the one run_agent
\* seeded: the two primitives, no red flag, no trust score, no review
\* requirement, an empty summary.
C9_OnlySeededFraudOnMismatch ==
    (invocation = 0 /\ pc = "END" /\ ~IdentityMatches) =>
        /\ state.status = "IDENTITY_FAILED"
        /\ state.fraud = << [refund_count |-> state.refund_count,
                             address_drift_miles |-> state.address_drift_miles,
                             red_flags |-> <<>>,
                             trust_score |-> <<>>,
                             requires_human_review |-> FALSE,
                             summary |-> <<>>] >>
        /\ state.red_flags = <<>> /\ ~state.requires_human_review
        /\ state.retrieved = <<>>
        /\ NoDraft

C9_Witness ==
    /\ invocation = 0 /\ pc = "END" /\ ~IdentityMatches
    /\ LastNode = "verify_identity"
    /\ state.refund_count > DEFAULT_MAX_REFUNDS

\* C10: status is always one of the eleven lifecycle values, and the red-flag
\* detector leaves status FLAGS_CHECKED.
C10_StatusIsALifecycleValue ==
    /\ state.status \in AgentStatus
    /\ LastNode = "red_flag_check" => state.status = "FLAGS_CHECKED"

(* ------------------------------------------------------ C11: node order *)
\* the place of a node in the gate sequence Identity Gate, Red-Flag Detector,
\* Risk Scorer, Human Review Gate, Draft; the retrieval step stands with the
\* identity gate it follows, and the end of the invocation comes after Draft
NodeOrder(n) ==
    CASE n = "none"            -> 0
      [] n = "verify_identity" -> 1
      [] n = "retrieve_data"   -> 1
      [] n = "red_flag_check"  -> 2
      [] n = "risk_scoring"    -> 3
      [] n = "human_review"    -> 4
      [] n = "draft_response"  -> 5
      [] OTHER                 -> 6

\* the executed nodes are in gate order and none ran twice
InGateOrder ==
    \A i, j \in DOMAIN executed :
        i < j => /\ NodeOrder(executed[i]) <= NodeOrder(executed[j])
                 /\ executed[i] # executed[j]

\* the step just taken passed over a node of the gate sequence: the invocation
\* goes on (or ended normally) past the successor of the node executed last
SkippedANode == pc # "ERROR" /\ NodeOrder(pc) > NodeOrder(LastNode) + 1

\* C11 as stated: the executed nodes are a subsequence of the gate sequence,
\* each at most once, and a node is passed over only when the router returned
\* blocked, human_review, approved or rejected at the preceding step
C11_SkipOnlyOnAGateKey ==
    /\ InGateOrder
    /\ SkippedANode => routeKey \in {"blocked", "human_review", "approved", "rejected"}

\* C11, amended: the executed nodes are a subsequence of the gate sequence,
\* each at most once, and a node is passed over only when the router returned
\* blocked, human_review, approved or rejected at the preceding step, or
\* returned continue after the risk scorer, which passes over the human
\* review gate on the way to the draft
C11_SkipOnlyOnARoutingKey ==
    /\ InGateOrder
    /\ SkippedANode =>
          \/ routeKey \in {"blocked", "human_review", "approved", "rejected"}
          \/ /\ routeKey = "continue"
             /\ LastNode = "risk_scoring"
             /\ pc = "draft_response"

\* the clean path: the risk scorer answered continue and the draft is next
C11_Witness ==
    /\ executed = <<"verify_identity", "retrieve_data", "red_flag_check", "risk_scoring">>
    /\ routeKey = "continue"
    /\ pc = "draft_response"

(* ----------------------------------------------------- C12: termination *)
\* agent.py:50-55: the nodes added to the graph
GraphNodes ==
    {"verify_identity", "retrieve_data", "red_flag_check", "risk_scoring",
     "human_review", "draft_response"}

\* one more node of the current invocation can execute
NodeStep ==
    \/ VerifyIdentity
    \/ RetrieveData
    \/ RedFlagCheck
    \/ RiskScoring
    \/ HumanReview
    \/ DraftResponse

ViolatesSchema ==
    \/ state.refund_count < 0
    \/ state.address_drift_miles < 0
    \/ state.user_input = <<>>

\* C13: a state with a negative refund_count, a negative address drift or an
\* empty user_input is rejected with a validation failure before the workflow
\* starts: no node executes and the status never leaves its initial value
C13_InvalidStateIsRejected ==
    ViolatesSchema =>
        /\ pc = "ERROR"
        /\ error = "ValidationError"
        /\ executed = <<>>
        /\ state.status = "IDENTITY_REQUIRED"

(* ------------------------------------------------ C14: missing thresholds *)
\* a policy threshold is missing from the configuration
ThresholdMissing ==
    env.MAX_REFUNDS_PER_MONTH = <<>> \/ env.ADDRESS_DRIFT_THRESHOLD_MILES = <<>>

\* C14: when a policy threshold is missing from the configuration, the red-flag
\* detector surfaces a configuration error instead of evaluating a default: its
\* step ends the invocation with that error, and no red_flags and no
\* requires_human_review are on the state
C14_MissingThresholdIsAConfigurationError ==
    (ThresholdMissing /\ Ran("red_flag_check")) =>
        /\ pc = "ERROR"
        /\ error = "ConfigurationError"
        /\ state.red_flags = <<>>
        /\ ~state.requires_human_review

(* ------------------------------------------------- two concurrent runs *)
\* a run of run_agent as a record: the AgentState it was started on, its own
\* AgentState now, the position of its invocation, and whether the external
\* lookups of its retrieval step succeed
NewRun(s, lookups_ok) ==
    [input |-> s,
     state |-> s,
     pc |-> IF ValidState(s) THEN "verify_identity" ELSE "ERROR",
     routeKey |-> "none",
     error |-> IF ValidState(s) THEN "none" ELSE "ValidationError",
     executed |-> <<>>,
     lookups_ok |-> lookups_ok]

\* a routed node of a run: the node's result, then route_next_step through
\* the node's map
RoutedRun(r, node, s2) ==
    LET key == route_next_step(s2)
    IN [r EXCEPT !.state = s2,
                 !.routeKey = key,
                 !.pc = Branch(node, key),
                 !.error = IF Branch(node, key) = "ERROR" THEN "KeyError" ELSE "none",
                 !.executed = Append(r.executed, node)]

\* the run after its next node executed
RunStep(r) ==
    CASE r.pc = "verify_identity" ->
            RoutedRun(r, "verify_identity", verify_identity_node(r.state))
      [] r.pc = "retrieve_data" ->
            IF Truthy(RetrievalUserId(r.state)) /\ r.lookups_ok
            THEN [r EXCEPT !.state = retrieve_data_node(r.state),
                           !.pc = "red_flag_check",
                           !.executed = Append(r.executed, "retrieve_data")]
            ELSE [r EXCEPT !.pc = "ERROR", !.error = "RetrievalError",
                           !.executed = Append(r.executed, "retrieve_data")]
      [] r.pc = "red_flag_check" ->
            RoutedRun(r, "red_flag_check", red_flag_checker_node(r.state))
      [] r.pc = "risk_scoring" ->
            RoutedRun(r, "risk_scoring", risk_scoring_node(r.state))
      [] r.pc = "human_review" ->
            RoutedRun(r, "human_review", human_review_node(r.state))
      [] r.pc = "draft_response" ->
            IF DraftRaises(r.state)
            THEN [r EXCEPT !.pc = "ERROR", !.error = "AttributeError",
                           !.executed = Append(r.executed, "draft_response")]
            ELSE [r EXCEPT !.state = draft_response_node(r.state),
                           !.pc = "END",
                           !.executed = Append(r.executed, "draft_response")]
      [] OTHER -> r

\* a step of run i with one red_flags list shared by the states of all runs
ConcurrentStep_shared_flags(rs, i) ==
    [j \in DOMAIN rs |->
        IF j = i THEN RunStep(rs[i])
        ELSE [rs[j] EXCEPT !.state.red_flags = RunStep(rs[i]).state.red_flags]]

\* agent.py:122-148, 151-152: every call of run_agent constructs its own
\* AgentState, with lists of its own, and the nodes write to the state they
\* were handed: a step of run i replaces run i
ConcurrentStep(rs, i) == [rs EXCEPT ![i] = RunStep(rs[i])]

RunIds == {1, 2}

\* what the two callers pass: a matching or a foreign identity, refunds and
\* drift under or over the thresholds
ConcurrentMetadata ==
    [user_id : {"u1", "u2"}, email : {"a@b.com"},
     refund_count : {<<>>, <<5>>}, address_drift_miles : {<<0>>, <<400>>}]

ConcurrentInputs ==
    { [InitialState(<<"Refund">>, sm) EXCEPT !.human_decision = d, !.trust_score = ts] :
        sm \in ConcurrentMetadata, d \in {None, "approve"}, ts \in SuppliedTrustScores }

\* two calls of run_agent in one process, sharing its environment
InitConcurrent ==
    /\ env = [USER_ID |-> "u1", USER_EMAIL |-> "a@b.com",
              MAX_REFUNDS_PER_MONTH |-> <<>>,
              ADDRESS_DRIFT_THRESHOLD_MILES |-> <<>>]
    /\ \E s1 \in ConcurrentInputs, s2 \in ConcurrentInputs,
          ok1 \in BOOLEAN, ok2 \in BOOLEAN :
            runs = <<NewRun(s1, ok1), NewRun(s2, ok2)>>
    /\ state = InitialState(<<>>, [user_id |-> None, email |-> None,
                                   refund_count |-> <<>>, address_drift_miles |-> <<>>])
    /\ pc = "CONCURRENT"
    /\ error = "none"
    /\ routeKey = "none"
    /\ executed = <<>>
    /\ invocation = 0
    /\ reviewOwed = FALSE

\* the scheduler lets run i execute its next node
StepRun(i) ==
    /\ runs[i].pc \notin {"END", "ERROR"}
    /\ runs' = ConcurrentStep(runs, i)
    /\ UNCHANGED <<env, state, pc, routeKey, error, executed, invocation, reviewOwed>>

NextConcurrent == \E i \in RunIds : StepRun(i)

SpecConcurrent == InitConcurrent /\ [][NextConcurrent]_vars

(* --------------------------------------------------- C15: isolated runs *)
\* the run r after n node executions with no other run in the process
RECURSIVE RunAlone(_, _)
RunAlone(r, n) == IF n = 0 THEN r ELSE RunAlone(RunStep(r), n - 1)

InitGate ==
    \E v \in BOOLEAN, r \in BOOLEAN, st \in AnyStatus,
       flags \in {<<>>, <<"REFUND_VELOCITY_EXCEEDED">>},
       d \in HumanDecisionType \cup {None} :
        /\ env = [USER_ID |-> "u1", USER_EMAIL |-> "a@b.com",
                  MAX_REFUNDS_PER_MONTH |-> <<>>,
                  ADDRESS_DRIFT_THRESHOLD_MILES |-> <<>>]
        /\ state = [InitialState(<<"Refund">>,
                                 [user_id |-> "u1", email |-> "a@b.com",
                                  refund_count |-> <<>>, address_drift_miles |-> <<>>])
                       EXCEPT !.is_verified = v, !.requires_human_review = r,
                              !.status = st, !.red_flags = flags,
                              !.human_decision = d]
        /\ pc = "GATE"
        /\ error = "none"
        /\ routeKey = "none"
        /\ executed = <<>>
        /\ invocation = 0
        /\ reviewOwed = r
        /\ runs = <<>>

\* nodes/human_review.py:17-56 applied to the state, once more
ApplyGate ==
    /\ pc = "GATE"
    /\ Len(executed) < MaxApplications
    /\ state' = human_review_node(state)
    /\ executed' = Append(executed, "human_review")
    /\ UNCHANGED <<env, pc, routeKey, error, invocation, reviewOwed, runs>>

SpecGate == InitGate /\ [][ApplyGate]_vars

(* --------------------------------------------- C16: the gate's decisions *)
\* C16: from any entry state the gate leaves approve and edit with
\* HUMAN_APPROVED and requires_human_review false, reject with HUMAN_REJECTED
\* and requires_human_review true, needs_more_info and no decision with
\* HUMAN_REVIEW_REQUIRED and requires_human_review true; and the state it
\* leaves is one it does not change: evaluating it once more equals once
C16_GateFollowsTheDecision ==
    executed # <<>> =>
        /\ state.human_decision \in {"approve", "edit"} =>
              state.status = "HUMAN_APPROVED" /\ ~state.requires_human_review
        /\ state.human_decision = "reject" =>
              state.status = "HUMAN_REJECTED" /\ state.requires_human_review
        /\ state.human_decision \in {"needs_more_info", None} =>
              state.status = "HUMAN_REVIEW_REQUIRED" /\ state.requires_human_review
        /\ human_review_node(state) = state

\* the gate was evaluated twice on an edit decision
C16_Witness ==
    /\ pc = "GATE"
    /\ Len(executed) = 2
    /\ state.human_decision = "edit"
    /\ state.status = "HUMAN_APPROVED"

(* ---------------------------------------- the identity gate on any state *)
\* what a session can claim: the trusted identity, a foreign one, the trusted
\* one in another case, an empty or a missing one
GateSessions ==
    { [user_id |-> "u1",  email |-> "a@b.com"],
      [user_id |-> "u2",  email |-> "a@b.com"],
      [user_id |-> "u1",  email |-> "A@B.com"],
      [user_id |-> "U1",  email |-> "a@b.com"],
      [user_id |-> "u1",  email |-> None],
      [user_id |-> "",    email |-> "a@b.com"],
      [user_id |-> None,  email |-> None] }

\* any AgentState the identity gate can be entered with
InitIdentity ==
    \E ref \in TrustedRefs, sid \in GateSessions, ui \in UserInputs,
       v \in BOOLEAN, r \in BOOLEAN, pii \in BOOLEAN,
       st \in {None, "IDENTITY_REQUIRED", "IDENTITY_VERIFIED", "HUMAN_REVIEW_REQUIRED"},
       it \in {"other", "refund"}, n \in {0, 5},
       flags \in {<<>>, <<"REFUND_VELOCITY_EXCEEDED">>} :
        /\ env = [USER_ID |-> ref.USER_ID, USER_EMAIL |-> ref.USER_EMAIL,
                  MAX_REFUNDS_PER_MONTH |-> <<>>,
                  ADDRESS_DRIFT_THRESHOLD_MILES |-> <<>>]
        /\ state = [InitialState(ui, [user_id |-> sid.user_id, email |-> sid.email,
                                      refund_count |-> <<n>>,
                                      address_drift_miles |-> <<>>])
                       EXCEPT !.is_verified = v, !.requires_human_review = r,
                              !.contains_pii = pii, !.status = st, !.intent = it,
                              !.red_flags = flags]
        /\ pc = "IDENTITY"
        /\ error = "none"
        /\ routeKey = "none"
        /\ executed = <<>>
        /\ invocation = 0
        /\ reviewOwed = r
        /\ runs = <<>>

\* nodes/verify_identity.py:24-67 applied to the state
ApplyIdentity ==
    /\ pc = "IDENTITY"
    /\ Len(executed) < MaxApplications
    /\ state' = verify_identity_node(state)
    /\ executed' = Append(executed, "verify_identity")
    /\ UNCHANGED <<env, pc, routeKey, error, invocation, reviewOwed, runs>>

SpecIdentity == InitIdentity /\ [][ApplyIdentity]_vars

(* ------------------------------------------- C17: the identity decision *)
\* C17: the identity gate leaves is_verified true and status
\* IDENTITY_VERIFIED exactly when both trusted values are configured and the
\* session's user_id and email both equal them exactly; in every other case it
\* leaves is_verified false and status IDENTITY_FAILED, and it never raises
C17_VerifiedIffExactMatch ==
    executed # <<>> =>
        /\ error = "none"
        /\ IF /\ env.USER_ID \notin {None, ""}
              /\ env.USER_EMAIL \notin {None, ""}
              /\ state.session_metadata.user_id = env.USER_ID
              /\ state.session_metadata.email = env.USER_EMAIL
           THEN state.is_verified /\ state.status = "IDENTITY_VERIFIED"
           ELSE ~state.is_verified /\ state.status = "IDENTITY_FAILED"

\* the gate refused a session whose user_id matches and whose email differs
\* from the trusted one in case only
C17_Witness ==
    /\ pc = "IDENTITY"
    /\ executed # <<>>
    /\ env.USER_ID = "u1" /\ env.USER_EMAIL = "a@b.com"
    /\ state.session_metadata.user_id = "u1"
    /\ state.session_metadata.email = "A@B.com"
    /\ state.status = "IDENTITY_FAILED"

(* ---------------------------------------- C18: the frame of a failed gate *)
\* C18: a step of the identity gate that fails changes is_verified and status
\* and nothing else: intent, contains_pii, red_flags, requires_human_review,
\* the fraud primitives and every other field keep the values they had on entry
C18_FailedGateChangesTwoFields ==
    [][(pc = "IDENTITY" /\ state'.status = "IDENTITY_FAILED")
          => state' = [state EXCEPT !.is_verified = FALSE,
                                    !.status = "IDENTITY_FAILED"]]_vars

\* the gate failed on a state that carried an intent, the PII mark, red flags,
\* the review flag and a refund count
C18_Witness ==
    /\ pc = "IDENTITY"
    /\ executed # <<>>
    /\ state.status = "IDENTITY_FAILED"
    /\ state.intent = "refund"
    /\ state.contains_pii
    /\ state.red_flags # <<>>
    /\ state.requires_human_review
    /\ state.refund_count = 5

(* ------------------------------------- the red-flag detector on any state *)
\* the policy thresholds of the environment: unset, one of them unset, set to
\* the values the code defaults to, lenient, or zero
DetectorThresholds ==
    { [MAX_REFUNDS_PER_MONTH |-> <<>>,  ADDRESS_DRIFT_THRESHOLD_MILES |-> <<>>],
      [MAX_REFUNDS_PER_MONTH |-> <<5>>, ADDRESS_DRIFT_THRESHOLD_MILES |-> <<>>],
      [MAX_REFUNDS_PER_MONTH |-> <<3>>, ADDRESS_DRIFT_THRESHOLD_MILES |-> <<300>>],
      [MAX_REFUNDS_PER_MONTH |-> <<6>>, ADDRESS_DRIFT_THRESHOLD_MILES |-> <<1000>>],
      [MAX_REFUNDS_PER_MONTH |-> <<0>>, ADDRESS_DRIFT_THRESHOLD_MILES |-> <<0>>] }

\* red_flags as an earlier pass of the detector can have left them
EntryFlags ==
    { <<>>, <<"REFUND_VELOCITY_EXCEEDED">>, <<"ADDRESS_DISTANCE_DISCREPANCY">> }

\* any valid AgentState the detector can be entered with
InitRedFlag ==
    \E thr \in DetectorThresholds, n \in 0..MaxRefundCount, i \in 0..MaxDriftSteps,
       over \in {0, 1}, flags \in EntryFlags, r \in BOOLEAN :
        /\ env = [USER_ID |-> "u1", USER_EMAIL |-> "a@b.com",
                  MAX_REFUNDS_PER_MONTH |-> thr.MAX_REFUNDS_PER_MONTH,
                  ADDRESS_DRIFT_THRESHOLD_MILES |-> thr.ADDRESS_DRIFT_THRESHOLD_MILES]
        /\ state = [InitialState(<<"Refund">>,
                                 [user_id |-> "u1", email |-> "a@b.com",
                                  refund_count |-> <<n>>,
                                  address_drift_miles |-> <<100 * i + over>>])
                       EXCEPT !.is_verified = TRUE, !.status = "DATA_RETRIEVED",
                              !.red_flags = flags, !.requires_human_review = r]
        /\ pc = "RED_FLAG"
        /\ error = "none"
        /\ routeKey = "none"
        /\ executed = <<>>
        /\ invocation = 0
        /\ reviewOwed = r
        /\ runs = <<>>

\* nodes/red_flag_checker.py:18-51 applied to the state, once more
ApplyRedFlag ==
    /\ pc = "RED_FLAG"
    /\ Len(executed) < MaxApplications
    /\ state' = red_flag_checker_node(state)
    /\ executed' = Append(executed, "red_flag_check")
    /\ UNCHANGED <<env, pc, routeKey, error, invocation, reviewOwed, runs>>

SpecRedFlag == InitRedFlag /\ [][ApplyRedFlag]_vars

(* ------------------------------------------- C19: the indicators raised *)
\* the indicators on the state, as a set
FlagSet == { state.red_flags[k] : k \in DOMAIN state.red_flags }

\* C19: with both thresholds configured, after one pass of the red-flag
\* detector red_flags holds the refund velocity indicator exactly when
\* refund_count is greater than the refund threshold and the address
\* indicator exactly when the drift is greater than the drift threshold, both
\* comparisons strict, and nothing else
C19_FlagsAreExactlyTheExceededThresholds ==
    (/\ pc = "RED_FLAG"
     /\ Len(executed) = 1
     /\ env.MAX_REFUNDS_PER_MONTH # <<>>
     /\ env.ADDRESS_DRIFT_THRESHOLD_MILES # <<>>) =>
        /\ "REFUND_VELOCITY_EXCEEDED" \in FlagSet
              <=> state.refund_count > env.MAX_REFUNDS_PER_MONTH[1]
        /\ "ADDRESS_DISTANCE_DISCREPANCY" \in FlagSet
              <=> state.address_drift_miles > env.ADDRESS_DRIFT_THRESHOLD_MILES[1]
        /\ FlagSet \subseteq {"REFUND_VELOCITY_EXCEEDED", "ADDRESS_DISTANCE_DISCREPANCY"}

(* --------------------------------------------- C20: the detector, twice *)
\* C20: a further pass of the red-flag detector leaves red_flags as the pass
\* before left them: the indicators are replaced, not appended, and no
\* indicator is on the list twice
C20_SecondPassKeepsTheFlags ==
    [][(pc = "RED_FLAG" /\ executed # <<>>) => state'.red_flags = state.red_flags]_vars

(* --------------------------------------- C21: flags force review, locally *)
\* C21: whatever state the red-flag detector is entered with, one that already
\* carries red_flags with requires_human_review false included, the state it
\* returns has requires_human_review true whenever its red_flags is non-empty
C21_DetectorFlagsForceReview ==
    (pc = "RED_FLAG" /\ executed # <<>>) =>
        (state.red_flags # <<>> => state.requires_human_review)

(* ------------------------------------- C22: flags force review, in a run *)
\* C22 as stated: in every state of a run, after the risk scorer and after
\* the human review gate with any decision included, red_flags non-empty
\* implies requires_human_review
C22_FlagsAlwaysForceReview ==
    state.red_flags # <<>> => state.requires_human_review

\* C22, amended: in every state of a run red_flags non-empty implies
\* requires_human_review, except once the human review gate has been
\* evaluated with an approve or edit decision, which lowers the flag to false
\* and marks the state HUMAN_APPROVED; no other node lowers it under flags
C22_FlagsForceReviewUntilApproved ==
    state.red_flags # <<>> =>
        \/ state.requires_human_review
        \/ /\ Ran("human_review")
           /\ state.human_decision \in {"approve", "edit"}
           /\ LastNode \in {"human_review", "draft_response"}

\* a flagged run was approved at the gate: flags on the state, the flag lowered
C22_Witness ==
    /\ LastNode = "human_review"
    /\ state.human_decision = "approve"
    /\ state.red_flags # <<>>
    /\ ~state.requires_human_review
    /\ state.status = "HUMAN_APPROVED"

(* --------------------------------------- C23: the composite mirrors flat *)
\* C23: in every state of a run in which the fraud composite exists, its
\* red_flags equal the flat red_flags and its requires_human_review equals
\* the flat requires_human_review
C23_CompositeMirrorsFlatFields ==
    state.fraud # <<>> =>
        /\ state.fraud[1].red_flags = state.red_flags
        /\ state.fraud[1].requires_human_review = state.requires_human_review

(* ----------------------------------------- the risk scorer on any state *)
\* the drifts of this model, in miles: every 50 up to 50 past the last step
Drifts == { 50 * k : k \in 0..(2 * MaxDriftSteps + 1) }

\* the fraud composite a state can enter the risk scorer with: none, or one
\* with any refund count, drift and flags
EntryFraud ==
    {<<>>} \cup
    { << [refund_count |-> n, address_drift_miles |-> d, red_flags |-> flags,
          trust_score |-> <<>>, requires_human_review |-> FALSE,
          summary |-> <<>>] >> :
        n \in 0..MaxRefundCount, d \in Drifts,
        flags \in {<<>>, <<"REFUND_VELOCITY_EXCEEDED">>} }

\* any valid AgentState the risk scorer can be entered with; the flat
\* primitives and flags need not be those of the composite
InitRisk ==
    \E f \in EntryFraud, n \in {0, 5}, d \in {0, 400},
       flags \in {<<>>, <<"ADDRESS_DISTANCE_DISCREPANCY">>}, r \in BOOLEAN :
        /\ env = [USER_ID |-> "u1", USER_EMAIL |-> "a@b.com",
                  MAX_REFUNDS_PER_MONTH |-> <<>>,
                  ADDRESS_DRIFT_THRESHOLD_MILES |-> <<>>]
        /\ state = [InitialState(<<"Refund">>,
                                 [user_id |-> "u1", email |-> "a@b.com",
                                  refund_count |-> <<n>>,
                                  address_drift_miles |-> <<d>>])
                       EXCEPT !.is_verified = TRUE,
                              !.status = IF flags = <<>> THEN "NO_RED_FLAGS"
                                         ELSE "RED_FLAG_DETECTED",
                              !.fraud = f, !.red_flags = flags,
                              !.requires_human_review = r]
        /\ pc = "RISK"
        /\ error = "none"
        /\ routeKey = "none"
        /\ executed = <<>>
        /\ invocation = 0
        /\ reviewOwed = r
        /\ runs = <<>>

\* nodes/risk_scoring.py:17-78 applied to the state, once more
ApplyRisk ==
    /\ pc = "RISK"
    /\ Len(executed) < MaxApplications
    /\ state' = risk_scoring_node(state)
    /\ executed' = Append(executed, "risk_scoring")
    /\ UNCHANGED <<env, pc, routeKey, error, invocation, reviewOwed, runs>>

SpecRisk == InitRisk /\ [][ApplyRisk]_vars

(* -------------------------------------------------- C24: the trust score *)
\* C24: the trust score the risk scorer writes for a refund count n and a
\* drift d is 1.0 - min(0.3, 0.05 n) - min(0.3, d / 1000), lies in [0, 1], and
\* no larger count with the same drift and no larger drift with the same
\* count gets a higher score
C24_TrustScoreInRangeAndMonotone ==
    (pc = "RISK" /\ executed # <<>>) =>
        LET f == state.fraud[1]
            n == f.refund_count
            d == f.address_drift_miles
        IN /\ f.trust_score # <<>>
           /\ f.trust_score[1] \in 0..1000
           /\ f.trust_score[1] =
                 1000 - (IF 50 * n < 300 THEN 50 * n ELSE 300)
                      - (IF d < 300 THEN d ELSE 300)
           /\ \A n2 \in n..(MaxRefundCount + 1) : TrustScore(n2, d) <= f.trust_score[1]
           /\ \A d2 \in Drifts : d2 >= d => TrustScore(n, d2) <= f.trust_score[1]

\* the scorer wrote a score strictly between the two ends of its range
C24_Witness ==
    /\ pc = "RISK"
    /\ executed # <<>>
    /\ state.fraud[1].refund_count = 2
    /\ state.fraud[1].address_drift_miles = 150
    /\ state.fraud[1].trust_score = <<750>>

(* ------------------------------------------------ C25: the decision rule *)
\* C25: for every input state the risk scorer leaves requires_human_review
\* true and status HUMAN_REVIEW_REQUIRED exactly when the trust score is below
\* 0.5 or the state's red_flags is non-empty, and otherwise leaves
\* requires_human_review false and status RISK_SCORED
C25_ReviewIffLowScoreOrFlags ==
    (pc = "RISK" /\ executed # <<>>) =>
        LET f == state.fraud[1]
            review == \/ BelowThreshold(f.refund_count, f.address_drift_miles)
                      \/ state.red_flags # <<>>
        IN /\ state.requires_human_review = review
           /\ state.status = IF review THEN "HUMAN_REVIEW_REQUIRED" ELSE "RISK_SCORED"

(* ------------------------------------------- C26: the composite created *)
\* C26: a pass of the risk scorer on a state without a fraud composite
\* creates the composite with the state's refund_count and address drift and
\* writes the trust score of those values, the score a state carrying that
\* composite would get
C26_CreatedCompositeHoldsThePrimitives ==
    [][(pc = "RISK" /\ state.fraud = <<>>) =>
          /\ state'.fraud # <<>>
          /\ state'.fraud[1].refund_count = state.refund_count
          /\ state'.fraud[1].address_drift_miles = state.address_drift_miles
          /\ state'.fraud[1].trust_score
                = <<TrustScore(state.refund_count, state.address_drift_miles)>>]_vars

(* ----------------------------------------- C27: every key has an edge *)
\* C27: right after each of the four routed nodes of a run, the key
\* route_next_step returned is one the conditional-edge map of that node
\* defines, and the invocation did not fail for want of an edge
C27_RoutingKeyHasAnEdge ==
    LastNode \in DOMAIN ConditionalEdges =>
        /\ routeKey \in DOMAIN ConditionalEdges[LastNode]
        /\ error # "KeyError"

(* ------------------------------------- C28: the scorer under the defaults *)
\* the thresholds are the ones the detector defaults to
DefaultThresholds ==
    /\ IntEnv(env.MAX_REFUNDS_PER_MONTH, DEFAULT_MAX_REFUNDS) = DEFAULT_MAX_REFUNDS
    /\ IntEnv(env.ADDRESS_DRIFT_THRESHOLD_MILES, DEFAULT_MAX_DRIFT_MILES)
          = DEFAULT_MAX_DRIFT_MILES

\* C28: with the default thresholds a run reaches the risk scorer only with
\* refund_count <= 3 and drift <= 300, the score written is at least 0.55,
\* the scorer leaves requires_human_review false, and the human review gate
\* is entered from the red-flag detector only
C28_ScorerNeverAsksForReviewUnderDefaults ==
    DefaultThresholds =>
        /\ (pc = "risk_scoring" \/ Ran("risk_scoring")) =>
              /\ state.refund_count <= DEFAULT_MAX_REFUNDS
              /\ state.address_drift_miles <= DEFAULT_MAX_DRIFT_MILES
        /\ Ran("risk_scoring") =>
              /\ state.fraud # <<>>
              /\ state.fraud[1].trust_score # <<>>
              /\ state.fraud[1].trust_score[1] >= 550
              /\ ~state.requires_human_review
              /\ ~Ran("human_review")
        /\ pc = "human_review" => LastNode = "red_flag_check"

\* a run at both default thresholds was scored 0.55 and goes on to the draft
C28_Witness ==
    /\ DefaultThresholds
    /\ LastNode = "risk_scoring"
    /\ state.refund_count = 3
    /\ state.address_drift_miles = 300
    /\ state.fraud[1].trust_score = <<550>>
    /\ pc = "draft_response"

====
